---- MODULE Spec2Model ----
(***************************************************************************)
(* Model of scripts/metric_aggregator.py: the coverage skeleton builder,   *)
(* the row-by-row aggregation loop, the raw-collection re-emission and the *)
(* JSON / Markdown report writers.                                         *)
(*                                                                         *)
(* Python strings are TLA+ strings (TLC evaluates Len, SubSeq and \o on    *)
(* them), insertion-ordered dicts are sequences of [k, v] pairs, and a     *)
(* dict with a fixed vocabulary of optional keys (an operation's           *)
(* attributes, the service_attributes entry) is a record with a `keys`     *)
(* field that says which of its keys are present.                          *)
(***************************************************************************)
EXTENDS Integers, Sequences, FiniteSets, TLC

(* ------------------------------ bounds --------------------------------- *)
\* rows in the files of a run, files in a run, rows in a run on one operation
MaxRows == 3
MaxFiles == 2
MaxErrorRows == 4

(* ------------------------------ strings -------------------------------- *)
\* Python `a in b` on strings: a occurs in b as a contiguous substring
StrIn(a, b) ==
    \E i \in 0..(Len(b) - Len(a)) : SubSeq(b, i + 1, i + Len(a)) = a

\* index of the first occurrence of the one-character separator, 0 if none
FirstSep(s, sep) ==
    IF \E i \in 1..Len(s) : SubSeq(s, i, i) = sep
    THEN CHOOSE i \in 1..Len(s) :
            /\ SubSeq(s, i, i) = sep
            /\ \A j \in 1..(i - 1) : SubSeq(s, j, j) # sep
    ELSE 0

\* Python str.split(sep): the list of the pieces between the separators
RECURSIVE StrSplit(_, _)
StrSplit(s, sep) ==
    LET i == FirstSep(s, sep)
    IN  IF i = 0 THEN <<s>>
        ELSE <<SubSeq(s, 1, i - 1)>> \o StrSplit(SubSeq(s, i + 1, Len(s)), sep)

Digits == <<"0", "1", "2", "3", "4", "5", "6", "7", "8", "9">>

DigitVal(c) == (CHOOSE d \in 1..10 : Digits[d] = c) - 1

IsDigit(c) == \E d \in 1..10 : Digits[d] = c

\* Python int(s) on a decimal literal raises ValueError unless s parses
IntParses(s) == Len(s) > 0 /\ \A i \in 1..Len(s) : IsDigit(SubSeq(s, i, i))

RECURSIVE ParseInt(_)
ParseInt(s) ==
    IF Len(s) = 0 THEN 0
    ELSE 10 * ParseInt(SubSeq(s, 1, Len(s) - 1)) + DigitVal(SubSeq(s, Len(s), Len(s)))

\* the characters that occur in the names of the model, in code-point order
Alphabet ==
    <<
      "0", "1", "2", "3", "4", "5", "6", "7", "8", "9", "A", "B", "C",
      "D", "E", "F", "G", "H", "I", "J", "K", "L", "M", "N", "O", "P",
      "Q", "R", "S", "T", "U", "V", "W", "X", "Y", "Z", "_", "a", "b",
      "c", "d", "e", "f", "g", "h", "i", "j", "k", "l", "m", "n", "o",
      "p", "q", "r", "s", "t", "u", "v", "w", "x", "y", "z"
    >>

Ord(c) == CHOOSE i \in 1..Len(Alphabet) : Alphabet[i] = c

\* Python string comparison a < b (lexicographic by code point)
RECURSIVE StrLess(_, _)
StrLess(a, b) ==
    IF Len(b) = 0 THEN FALSE
    ELSE IF Len(a) = 0 THEN TRUE
    ELSE IF SubSeq(a, 1, 1) = SubSeq(b, 1, 1)
    THEN StrLess(SubSeq(a, 2, Len(a)), SubSeq(b, 2, Len(b)))
    ELSE Ord(SubSeq(a, 1, 1)) < Ord(SubSeq(b, 1, 1))

\* Python sorted(keys): the keys of a set in increasing order
RECURSIVE Sorted(_)
Sorted(S) ==
    IF S = {} THEN <<>>
    ELSE LET m == CHOOSE x \in S : \A y \in S \ {x} : StrLess(x, y)
         IN  <<m>> \o Sorted(S \ {m})

(* ------------------------- insertion-ordered dict ---------------------- *)
DictKeys(d) == {d[i].k : i \in 1..Len(d)}

DictHas(d, key) == \E i \in 1..Len(d) : d[i].k = key

DictGet(d, key, default) ==
    IF DictHas(d, key) THEN d[CHOOSE i \in 1..Len(d) : d[i].k = key].v
    ELSE default

\* d[key] = val: overwrite in place, or append a new key at the end
DictSet(d, key, val) ==
    IF DictHas(d, key)
    THEN [i \in 1..Len(d) |-> IF d[i].k = key THEN [k |-> key, v |-> val] ELSE d[i]]
    ELSE Append(d, [k |-> key, v |-> val])

\* {name: 0 for name in names}, built by successive assignment
RECURSIVE ZeroDict(_)
ZeroDict(names) ==
    IF Len(names) = 0 THEN <<>>
    ELSE DictSet(ZeroDict(SubSeq(names, 1, Len(names) - 1)), names[Len(names)], 0)

SeqToSet(s) == {s[i] : i \in 1..Len(s)}

(* ------------------------- the service catalog ------------------------- *)
\* One entry of SERVICE_PLUGINS.api_provider_specs with what load_service
\* returns for it: provider is the list of providers of the service, loads
\* says whether the try block of the builder runs without an exception, and
\* each operation has an input shape with members (or none) and error shapes.
OperationModel(hasMembers, members, hasErrorShapes, errorShapes) ==
    [has_members |-> hasMembers, members |-> members,
     has_error_shapes |-> hasErrorShapes, error_shapes |-> errorShapes]

Service1 ==
    [s |-> "S1", provider |-> {"default", "pro"}, loads |-> TRUE,
     operation_names |-> <<"Op1", "Op2">>,
     operation_model |->
        ("Op1" :> OperationModel(TRUE, <<"p1", "p2">>, TRUE, <<"E1", "E2">>)) @@
        ("Op2" :> OperationModel(FALSE, <<>>, FALSE, <<>>))]

\* a catalog entry that load_service rejects
Service2Broken ==
    [s |-> "S2", provider |-> {"default"}, loads |-> FALSE,
     operation_names |-> <<"OpB">>,
     operation_model |-> ("OpB" :> OperationModel(TRUE, <<"q1">>, TRUE, <<>>))]

\* a service that declares no operation
Service2Empty ==
    [s |-> "S2", provider |-> {"pro"}, loads |-> TRUE,
     operation_names |-> <<>>,
     operation_model |-> <<>>]

Service3 ==
    [s |-> "S3", provider |-> {"default"}, loads |-> TRUE,
     operation_names |-> <<"OpA">>,
     operation_model |-> ("OpA" :> OperationModel(TRUE, <<>>, TRUE, <<"E1">>))]

Catalogs == {<<Service1, Service2Broken, Service3>>,
             <<Service1, Service2Empty, Service3>>}

(* ---------------------- the coverage skeleton -------------------------- *)
\* a dict none of whose optional keys is present
NoAttributes ==
    [keys |-> {}, invoked |-> 0, parameters |-> <<>>, errors |-> <<>>,
     tests |-> <<>>, pro |-> FALSE, community |-> FALSE]

ServiceAttributes(provider) ==
    [NoAttributes EXCEPT !.keys = {"pro", "community"},
                         !.pro = "pro" \in provider,
                         !.community = "default" \in provider]

\* the attributes dict of one operation, a mapping being left out when it
\* would be empty
OperationAttributes_omitsEmpty(model) ==
    [NoAttributes EXCEPT
        !.keys = {"invoked"}
                 \cup (IF model.has_members /\ Len(model.members) > 0
                       THEN {"parameters"} ELSE {})
                 \cup (IF model.has_error_shapes /\ Len(model.error_shapes) > 0
                       THEN {"errors"} ELSE {}),
        !.parameters = IF model.has_members THEN ZeroDict(model.members) ELSE <<>>,
        !.errors = IF model.has_error_shapes THEN ZeroDict(model.error_shapes) ELSE <<>>]

\* the attributes dict of one operation (lines 81-92)
OperationAttributes(model) ==
    [NoAttributes EXCEPT
        !.keys = {"invoked"}
                 \cup (IF model.has_members THEN {"parameters"} ELSE {})
                 \cup (IF model.has_error_shapes THEN {"errors"} ELSE {}),
        !.parameters = IF model.has_members THEN ZeroDict(model.members) ELSE <<>>,
        !.errors = IF model.has_error_shapes THEN ZeroDict(model.error_shapes) ELSE <<>>]

\* the ops dict of one service (lines 77-93)
ServiceSkeleton_dropsLast(entry) ==
    [key \in {"service_attributes"}
             \cup SeqToSet(SubSeq(entry.operation_names, 1, Len(entry.operation_names) - 1)) |->
        IF key = "service_attributes" THEN ServiceAttributes(entry.provider)
        ELSE OperationAttributes(entry.operation_model[key])]

ServiceSkeleton(entry) ==
    [key \in {"service_attributes"} \cup SeqToSet(entry.operation_names) |->
        IF key = "service_attributes" THEN ServiceAttributes(entry.provider)
        ELSE OperationAttributes(entry.operation_model[key])]

\* one iteration of the loop over the catalog (lines 74-97)
AddService(recorder, entry) ==
    IF entry.loads
    THEN [key \in (DOMAIN recorder) \cup {entry.s} |->
            IF key = entry.s THEN ServiceSkeleton(entry) ELSE recorder[key]]
    ELSE recorder

\* the loop of lines 74-97 over the first n entries of the catalog
RECURSIVE BuildServices(_, _, _)
BuildServices(recorder, cat, n) ==
    IF n = 0 THEN recorder
    ELSE AddService(BuildServices(recorder, cat, n - 1), cat[n])

\* the builder with a recorder kept from one call to the next
InitServiceMetricCounter_cached(previous, cat) ==
    IF DOMAIN previous # {} THEN previous
    ELSE BuildServices(<<>>, cat, Len(cat))

\* _init_service_metric_counter: metric_recorder = {} (line 71), then the
\* loop; the recorder of an earlier call (previous) is not an input
InitServiceMetricCounter(previous, cat) ==
    BuildServices(<<>>, cat, Len(cat))

(* --------------------------- one raw row ------------------------------- *)
\* Metric(*row): the positional fields of a raw row, in the order of the
\* header contract; a row of any other length makes the constructor raise
MetricArity == Len(<<"node_id", "service", "operation", "parameters",
                     "exception", "response_code", "response_data", "xfail">>)

Metric(row) ==
    [node_id |-> row[1], service |-> row[2], operation |-> row[3],
     parameters |-> row[4], exception |-> row[5], response_code |-> row[6],
     response_data |-> row[7], xfail |-> row[8]]

\* the architecture label of a source path (lines 139-143)
ArchLabel(path) ==
    IF StrIn("arm64", path) THEN "arm64"
    ELSE IF StrIn("amd64", path) THEN "amd64"
    ELSE ""

\* append_row_to_raw_collection: the copied row with the label appended
AppendRowToRawCollection(collection, row, arch) ==
    Append(collection, Append(row, arch))

\* lines 138-144 placed after the xfail check instead of before it
ReEmitRow_afterXfail(requested, collection, row, path) ==
    IF requested /\ ~(Len(row) = MetricArity /\ row[MetricArity] = "True")
    THEN AppendRowToRawCollection(collection, row, ArchLabel(path))
    ELSE collection

\* lines 138-144: the first statement of the loop body
ReEmitRow(requested, collection, row, path) ==
    IF requested
    THEN AppendRowToRawCollection(collection, row, ArchLabel(path))
    ELSE collection

\* line 147, with a flag comparison that never matches
IsXfail_never(metric) == metric.xfail = "true"

\* line 147
IsXfail(metric) == metric.xfail = "True"

\* line 150, with the filter ignored
ArchFiltered_never(collectForArch, path) == FALSE

\* line 150
ArchFiltered(collectForArch, path) ==
    collectForArch # "" /\ ~StrIn(collectForArch, path)

(* ---------------------- folding one record ----------------------------- *)
\* the result of a group of statements: the dict as the statements left it
\* and the exception that stopped them ("" when none was raised)
Outcome(ops, err) == [ops |-> ops, err |-> err]

\* ops.setdefault("errors", {}) (line 156)
SetDefaultErrors(ops) ==
    IF "errors" \in ops.keys THEN ops
    ELSE [ops EXCEPT !.keys = @ \cup {"errors"}, !.errors = <<>>]

\* the keys of an attributes dict whose value is not a number
NonNumericKeys == {"parameters", "errors", "tests"}

\* ops.get(key, 0) for a key whose value, if any, is a number or a bool
OpsGet(ops, key) ==
    IF key \notin ops.keys THEN 0
    ELSE IF key = "invoked" THEN ops.invoked
    ELSE IF key = "pro" THEN (IF ops.pro THEN 1 ELSE 0)
    ELSE IF key = "community" THEN (IF ops.community THEN 1 ELSE 0)
    ELSE 0

\* the loop of lines 161-168 left out: no key is ever matched
FirstMatch_never(errors, responseData) == 0

\* the loop of lines 161-168 without its break: the last matching key
FirstMatch_last(errors, responseData) ==
    IF \E i \in 1..Len(errors) : StrIn(errors[i].k, responseData)
    THEN CHOOSE i \in 1..Len(errors) :
            /\ StrIn(errors[i].k, responseData)
            /\ \A j \in (i + 1)..Len(errors) : ~StrIn(errors[j].k, responseData)
    ELSE 0

\* the first key of the errors dict, in insertion order, that occurs in the
\* response data; 0 when the loop of lines 161-168 ends without a match
FirstMatch(errors, responseData) ==
    IF \E i \in 1..Len(errors) : StrIn(errors[i].k, responseData)
    THEN CHOOSE i \in 1..Len(errors) :
            /\ StrIn(errors[i].k, responseData)
            /\ \A j \in 1..(i - 1) : ~StrIn(errors[j].k, responseData)
    ELSE 0

\* error accounting (lines 156-168)
AccountErrors(ops0, metric) ==
    LET ops == SetDefaultErrors(ops0)
    IN  IF metric.exception # ""
        THEN IF metric.exception \in ops.keys \cap NonNumericKeys
             THEN Outcome(ops, "TypeError")
             ELSE Outcome([ops EXCEPT !.errors =
                              DictSet(@, metric.exception,
                                      OpsGet(ops, metric.exception) + 1)], "")
        ELSE IF ~IntParses(metric.response_code)
        THEN Outcome(ops, "ValueError")
        ELSE IF ParseInt(metric.response_code) >= 300
        THEN LET i == FirstMatch(ops.errors, metric.response_data)
             IN  IF i = 0 THEN Outcome(ops, "")
                 ELSE Outcome([ops EXCEPT !.errors[i].v = @ + 1], "")
        ELSE Outcome(ops, "")

\* ops["invoked"] += 1 (line 170)
AccountInvoked(ops) ==
    IF "invoked" \notin ops.keys THEN Outcome(ops, "KeyError")
    ELSE Outcome([ops EXCEPT !.invoked = @ + 1], "")

\* the loop of lines 175-176 over the names from position i on
RECURSIVE AccountNames(_, _, _)
AccountNames(ops, names, i) ==
    IF i > Len(names) THEN Outcome(ops, "")
    ELSE IF "parameters" \notin ops.keys \/ ~DictHas(ops.parameters, names[i])
    THEN Outcome(ops, "KeyError")
    ELSE AccountNames([ops EXCEPT !.parameters =
                          DictSet(@, names[i], DictGet(@, names[i], 0) + 1)],
                      names, i + 1)

\* parameter accounting (lines 171-176)
AccountParameters(ops, metric) ==
    IF metric.parameters = ""
    THEN LET withParams == IF "parameters" \in ops.keys THEN ops
                           ELSE [ops EXCEPT !.keys = @ \cup {"parameters"},
                                            !.parameters = <<>>]
         IN  Outcome([withParams EXCEPT !.parameters =
                         DictSet(@, "_none_", DictGet(@, "_none_", 0) + 1)], "")
    ELSE AccountNames(ops, StrSplit(metric.parameters, ","), 1)

\* lines 178-180 without the membership test
AccountTests_noDedup(ops, nodeId) ==
    [ops EXCEPT !.keys = @ \cup {"tests"}, !.tests = Append(@, nodeId)]

\* lines 178-180
AccountTests(ops, nodeId) ==
    LET withTests == IF "tests" \in ops.keys THEN ops
                     ELSE [ops EXCEPT !.keys = @ \cup {"tests"}, !.tests = <<>>]
    IN  IF nodeId \in SeqToSet(withTests.tests) THEN withTests
        ELSE [withTests EXCEPT !.tests = Append(@, nodeId)]

\* lines 156-180 on the dict that the lookup of line 154 returned
FoldIntoOps(ops0, metric) ==
    LET e == AccountErrors(ops0, metric)
    IN  IF e.err # "" THEN e
        ELSE LET n == AccountInvoked(e.ops)
             IN  IF n.err # "" THEN n
                 ELSE LET q == AccountParameters(n.ops, metric)
                      IN  IF q.err # "" THEN q
                          ELSE Outcome(AccountTests(q.ops, metric.node_id), "")

\* the result of one iteration of the row loop: the recorder as the iteration
\* left it, the exception that ended the run ("" when it goes on) and whether
\* the record went through all of lines 153-180
Step(rec, err, folded) == [recorded |-> rec, err |-> err, folded |-> folded]

\* lines 146-180 with lookups that skip a record of an unknown service or
\* operation instead of raising
FoldRow_skipsAbsent(rec, row, path, collectForArch) ==
    IF Len(row) # MetricArity THEN Step(rec, "TypeError", FALSE)
    ELSE LET metric == Metric(row)
         IN  IF IsXfail(metric) THEN Step(rec, "", FALSE)
             ELSE IF ArchFiltered(collectForArch, path) THEN Step(rec, "", FALSE)
             ELSE IF metric.service \notin DOMAIN rec THEN Step(rec, "", FALSE)
             ELSE IF metric.operation \notin DOMAIN rec[metric.service]
             THEN Step(rec, "", FALSE)
             ELSE LET o == FoldIntoOps(rec[metric.service][metric.operation], metric)
                  IN  Step([rec EXCEPT ![metric.service][metric.operation] = o.ops],
                           o.err, o.err = "")

\* lines 146-180 with a row of the wrong length skipped instead of being
\* handed to the constructor
FoldRow_skipsShort(rec, row, path, collectForArch) ==
    IF Len(row) # MetricArity THEN Step(rec, "", FALSE)
    ELSE LET metric == Metric(row)
         IN  IF IsXfail(metric) THEN Step(rec, "", FALSE)
             ELSE IF ArchFiltered(collectForArch, path) THEN Step(rec, "", FALSE)
             ELSE IF metric.service \notin DOMAIN rec THEN Step(rec, "KeyError", FALSE)
             ELSE IF metric.operation \notin DOMAIN rec[metric.service]
             THEN Step(rec, "KeyError", FALSE)
             ELSE LET o == FoldIntoOps(rec[metric.service][metric.operation], metric)
                  IN  Step([rec EXCEPT ![metric.service][metric.operation] = o.ops],
                           o.err, o.err = "")

\* lines 146-180 for one row of the file at `path`
FoldRow(rec, row, path, collectForArch) ==
    IF Len(row) # MetricArity THEN Step(rec, "TypeError", FALSE)
    ELSE LET metric == Metric(row)
         IN  IF IsXfail(metric) THEN Step(rec, "", FALSE)
             ELSE IF ArchFiltered(collectForArch, path) THEN Step(rec, "", FALSE)
             ELSE IF metric.service \notin DOMAIN rec THEN Step(rec, "KeyError", FALSE)
             ELSE IF metric.operation \notin DOMAIN rec[metric.service]
             THEN Step(rec, "KeyError", FALSE)
             ELSE LET o == FoldIntoOps(rec[metric.service][metric.operation], metric)
                  IN  Step([rec EXCEPT ![metric.service][metric.operation] = o.ops],
                           o.err, o.err = "")

\* the row loop as a whole, over the [path, row] inputs of position i on:
\* the recorder, the raw collection and the exception that ended the loop
\* ("" when every row was read)
RECURSIVE FoldRows(_, _, _, _, _, _)
FoldRows(rec, collection, inputs, i, requested, collectForArch) ==
    IF i > Len(inputs) THEN [recorded |-> rec, raw |-> collection, err |-> ""]
    ELSE LET r == FoldRow(rec, inputs[i].row, inputs[i].path, collectForArch)
             c == ReEmitRow(requested, collection, inputs[i].row, inputs[i].path)
         IN  IF r.err # "" THEN [recorded |-> r.recorded, raw |-> c, err |-> r.err]
             ELSE FoldRows(r.recorded, c, inputs, i + 1, requested, collectForArch)

\* aggregate_recorded_raw_data over files that hold the given inputs
AggregateRecordedRawData(previous, cat, collection, inputs, requested, arch) ==
    FoldRows(InitServiceMetricCounter(previous, cat), collection, inputs, 1,
             requested, arch)

(* ------------------------------ write_json ----------------------------- *)
RECURSIVE IntToStr(_)
IntToStr(n) ==
    IF n < 10 THEN Digits[n + 1]
    ELSE IntToStr(n \div 10) \o Digits[(n % 10) + 1]

RECURSIVE Spaces(_)
Spaces(n) == IF n = 0 THEN "" ELSE " " \o Spaces(n - 1)

Quoted(str) == "\"" \o str \o "\""

\* the items of a JSON container, one per line at the given depth
RECURSIVE JsonItems(_, _, _)
JsonItems(items, i, depth) ==
    IF i > Len(items) THEN ""
    ELSE "\n" \o Spaces(2 * depth) \o items[i]
         \o (IF i < Len(items) THEN "," ELSE "")
         \o JsonItems(items, i + 1, depth)

JsonContainer(open, close, items, depth) ==
    IF Len(items) = 0 THEN open \o close
    ELSE open \o JsonItems(items, 1, depth + 1) \o "\n" \o Spaces(2 * depth) \o close

\* a {name: count} dict, keys sorted
JsonCounts(d, depth) ==
    LET keys == Sorted(DictKeys(d))
    IN  JsonContainer("{", "}",
            [i \in 1..Len(keys) |->
                Quoted(keys[i]) \o ": " \o IntToStr(DictGet(d, keys[i], 0))],
            depth)

JsonList(l, depth) ==
    JsonContainer("[", "]", [i \in 1..Len(l) |-> Quoted(l[i])], depth)

JsonAttribute(attrs, key, depth) ==
    IF key = "invoked" THEN IntToStr(attrs.invoked)
    ELSE IF key = "parameters" THEN JsonCounts(attrs.parameters, depth)
    ELSE IF key = "errors" THEN JsonCounts(attrs.errors, depth)
    ELSE IF key = "tests" THEN JsonList(attrs.tests, depth)
    ELSE IF key = "pro" THEN (IF attrs.pro THEN "true" ELSE "false")
    ELSE (IF attrs.community THEN "true" ELSE "false")

JsonAttributes(attrs, depth) ==
    LET keys == Sorted(attrs.keys)
    IN  JsonContainer("{", "}",
            [i \in 1..Len(keys) |->
                Quoted(keys[i]) \o ": " \o JsonAttribute(attrs, keys[i], depth + 1)],
            depth)

JsonService(service, depth) ==
    LET keys == Sorted(DOMAIN service)
    IN  JsonContainer("{", "}",
            [i \in 1..Len(keys) |->
                Quoted(keys[i]) \o ": " \o JsonAttributes(service[keys[i]], depth + 1)],
            depth)

\* json.dumps(metric_dict, indent=2, sort_keys=True)
JsonDumps(metrics) ==
    LET keys == Sorted(DOMAIN metrics)
    IN  JsonContainer("{", "}",
            [i \in 1..Len(keys) |->
                Quoted(keys[i]) \o ": " \o JsonService(metrics[keys[i]], 1)],
            0)

(* ------------------------ create_readable_report ----------------------- *)
\* _generate_details_block: one checked or unchecked item per entry
GenerateDetailsBlock(details) ==
    [i \in 1..Len(details) |-> [e |-> details[i].k, checked |-> details[i].v > 0]]

\* f"{tested/counter*100:.2f}": the quotient rounded to hundredths, half to even
FormatCoverage(tested, counter) ==
    LET q == (tested * 10000) \div counter
        r == (tested * 10000) % counter
        h == IF 2 * r > counter \/ (2 * r = counter /\ q % 2 = 1) THEN q + 1 ELSE q
    IN  IntToStr(h \div 100) \o "." \o Digits[((h % 100) \div 10) + 1]
        \o Digits[(h % 10) + 1]

\* line 45 evaluated before the del of line 43
OperationCounter_beforeDel(details) == Cardinality(DOMAIN details) + 1

\* line 45: len(details), after service_attributes was deleted from details
OperationCounter(details) == Cardinality(DOMAIN details)

\* the list item of one operation with its nested blocks (lines 50-61)
OperationItem(operation, opDetails) ==
    [operation |-> operation,
     checked |-> OpsGet(opDetails, "invoked") > 0,
     parameters |-> IF "parameters" \in opDetails.keys /\ Len(opDetails.parameters) > 0
                    THEN GenerateDetailsBlock(opDetails.parameters) ELSE <<>>,
     errors |-> IF "errors" \in opDetails.keys /\ Len(opDetails.errors) > 0
                THEN GenerateDetailsBlock(opDetails.errors) ELSE <<>>]

\* metrics[service] after `del metrics[service]["service_attributes"]`
DelServiceAttributes(details) ==
    [key \in (DOMAIN details) \ {"service_attributes"} |-> details[key]]

\* one iteration of the loop over the sorted services (lines 35-67): the
\* metrics as the iteration left them, the block appended to the file (when
\* no exception was raised) and the exception
RenderService(metrics, service, first) ==
    LET details == metrics[service]
    IN  IF "service_attributes" \notin DOMAIN details
           \/ "pro" \notin details["service_attributes"].keys
        THEN [metrics |-> metrics, block |-> <<>>, err |-> "KeyError"]
        ELSE LET attrs == details["service_attributes"]
                 tier == IF ~attrs.pro THEN "community"
                         ELSE IF ~attrs.community THEN "pro only"
                         ELSE "community, and pro features"
                 deleted == DelServiceAttributes(details)
                 after == [metrics EXCEPT ![service] = deleted]
                 counter == OperationCounter(deleted)
                 names == Sorted(DOMAIN deleted)
                 items == [i \in 1..Len(names) |->
                              OperationItem(names[i], deleted[names[i]])]
                 tested == Cardinality({i \in 1..Len(items) : items[i].checked})
             IN  IF counter = 0
                 THEN [metrics |-> after, block |-> <<>>, err |-> "ZeroDivisionError"]
                 ELSE [metrics |-> after,
                       block |-> <<[title |-> first, service |-> service,
                                    tier |-> tier,
                                    coverage |-> FormatCoverage(tested, counter),
                                    operations |-> items]>>,
                       err |-> ""]

(* ------------------------------ inputs --------------------------------- *)
Row(nodeId, service, operation, parameters, exception, code, data, xfail) ==
    <<nodeId, service, operation, parameters, exception, code, data, xfail>>

RowParam      == Row("t1", "S1", "Op1", "p1", "", "200", "", "False")
RowException  == Row("t2", "S1", "Op1", "", "E1", "400", "", "False")
RowMatch      == Row("t3", "S1", "Op1", "", "", "404", "boom E1 happened", "False")
RowNoMatch    == Row("t4", "S1", "Op1", "", "", "404", "unrelated text", "False")
RowXfail      == Row("t1", "SX", "OpX", "px", "E1", "500", "", "True")
RowNewError   == Row("t1", "S1", "Op2", "", "E9", "400", "", "False")
RowNewMatch   == Row("t2", "S1", "Op2", "", "", "500", "E9 raised", "False")
RowTwoNames   == Row("t1", "S1", "Op1", "p1,p2", "", "500", "E2 and E1", "False")
RowNoneName   == Row("t3", "S1", "Op2", "_none_", "", "200", "", "False")
RowBadParam   == Row("t1", "S1", "Op1", "p1,px", "", "200", "", "False")
RowBadOp      == Row("t1", "S1", "OpX", "", "", "200", "", "False")
RowBadService == Row("t1", "SX", "Op1", "", "", "200", "", "False")
RowAttributes == Row("t1", "S1", "service_attributes", "", "E1", "200", "", "False")
RowShort      == <<"t1", "S1", "Op1">>

AllRows == {RowParam, RowException, RowMatch, RowXfail, RowNewError,
            RowTwoNames, RowNoneName, RowBadParam, RowBadOp,
            RowBadService, RowAttributes, RowShort}

\* well-formed records that differ in their error accounting
ErrorRows == {RowParam, RowException, RowMatch, RowNoMatch, RowNewError,
              RowNewMatch, RowTwoNames}

ArchRows == {RowParam, RowXfail, RowBadOp}

\* the rows of the runs with re-emission and no filter
RawRows == {RowParam, RowXfail, RowShort, RowNewMatch}

PathArm  == "arm64/metric-report-raw-data-1.csv"
PathAmd  == "amd64/metric-report-raw-data-1.csv"
PathBoth == "arm64/amd64/metric-report-raw-data-2.csv"
PathNone == "x86/metric-report-raw-data-1.csv"

\* the directories of the runs with an architecture filter
ArchDirs == {{PathArm, PathAmd, PathNone}, {PathBoth, PathNone}}

(* ------------------------------ state ---------------------------------- *)
VARIABLES
    catalog,            \* the service catalog of the run
    base_dir,           \* [paths, rows, max_rows]: the files rglob can find, the rows
                        \* they may hold and how many they hold together
    collection_raw_csv, \* whether raw-collection re-emission is requested
    collect_for_arch,   \* the architecture filter, "" when none
    pc,                 \* "init", "files", "returned", "again", "render", "done", "aborted"
    built,              \* number of catalog entries the builder has gone through
    recorded,           \* the Aggregate Report
    path,               \* the file being read, "" before the first
    opened,             \* the paths opened so far, in discovery order
    read,               \* the [path, row] inputs read so far, in order
    raw_collection,     \* the rows of the raw-collection file
    error,              \* the exception that aborted the run, "" when none
    json_file,          \* <<>> or <<text>>: the JSON report
    md_file,            \* the blocks appended to the Markdown report
    queue,              \* the sorted services still to render
    second_run          \* <<>> or <<result>> of a second call on the same inputs

vars == <<catalog, base_dir, collection_raw_csv, collect_for_arch, pc, built,
          recorded, path, opened, read, raw_collection, error, json_file,
          md_file, queue, second_run>>

inputVars == <<catalog, base_dir, collection_raw_csv, collect_for_arch>>

InitRun ==
    /\ pc = "init"
    /\ built = 0
    /\ recorded = <<>>
    /\ path = ""
    /\ opened = <<>>
    /\ read = <<>>
    /\ raw_collection = <<>>
    /\ error = ""
    /\ json_file = <<>>
    /\ md_file = <<>>
    /\ queue = <<>>
    /\ second_run = <<>>

\* any record, one source file, no architecture filter, no re-emission
Init ==
    /\ catalog \in Catalogs
    /\ base_dir = [paths |-> {PathAmd}, rows |-> AllRows, max_rows |-> MaxRows]
    /\ collection_raw_csv = FALSE
    /\ collect_for_arch = ""
    /\ InitRun

\* few records, files of every architecture, the filter set as main() allows
InitArch ==
    /\ catalog = <<Service1>>
    /\ base_dir \in {[paths |-> d, rows |-> ArchRows, max_rows |-> MaxRows] :
                       d \in ArchDirs}
    /\ collection_raw_csv = TRUE
    /\ collect_for_arch \in {"arm64", "amd64"}
    /\ InitRun

\* more records of well-formed error accounting, one service, one file
InitErrors ==
    /\ catalog = <<Service1>>
    /\ base_dir = [paths |-> {PathNone}, rows |-> ErrorRows,
                   max_rows |-> MaxErrorRows]
    /\ collection_raw_csv = FALSE
    /\ collect_for_arch = ""
    /\ InitRun

\* rows of any length, files with and without label, re-emission, no filter
InitRaw ==
    /\ catalog = <<Service1, Service3>>
    /\ base_dir = [paths |-> {PathArm, PathNone}, rows |-> RawRows,
                   max_rows |-> MaxRows]
    /\ collection_raw_csv = TRUE
    /\ collect_for_arch = ""
    /\ InitRun

(* ------------------------------ actions -------------------------------- *)
\* one iteration of the builder's loop over the catalog
InitService ==
    /\ pc = "init"
    /\ built < Len(catalog)
    /\ recorded' = AddService(recorded, catalog[built + 1])
    /\ built' = built + 1
    /\ pc' = IF built + 1 = Len(catalog) THEN "files" ELSE "init"
    /\ UNCHANGED <<inputVars, path, opened, read, raw_collection, error,
                   json_file, md_file, queue, second_run>>

\* the next path of pathlist is opened and its header skipped; next() on a
\* file without any line raises StopIteration
OpenFile ==
    /\ pc = "files"
    /\ Len(opened) < MaxFiles
    /\ \E p \in base_dir.paths \ SeqToSet(opened), hasHeader \in BOOLEAN :
        /\ opened' = Append(opened, p)
        /\ path' = p
        /\ pc' = IF hasHeader THEN "files" ELSE "aborted"
        /\ error' = IF hasHeader THEN "" ELSE "StopIteration"
    /\ UNCHANGED <<inputVars, built, recorded, read, raw_collection,
                   json_file, md_file, queue, second_run>>

\* one iteration of the row loop (lines 137-180)
ReadRow ==
    /\ pc = "files"
    /\ path # ""
    /\ Len(read) < base_dir.max_rows
    /\ \E row \in base_dir.rows :
        LET r == FoldRow(recorded, row, path, collect_for_arch)
        IN  /\ read' = Append(read, [path |-> path, row |-> row])
            /\ raw_collection' = ReEmitRow(collection_raw_csv, raw_collection, row, path)
            /\ recorded' = r.recorded
            /\ error' = r.err
            /\ pc' = IF r.err = "" THEN "files" ELSE "aborted"
    /\ UNCHANGED <<inputVars, built, path, opened, json_file, md_file, queue,
                   second_run>>

\* pathlist is exhausted: aggregate_recorded_raw_data returns recorded
Return ==
    /\ pc = "files"
    /\ pc' = "returned"
    /\ UNCHANGED <<inputVars, built, recorded, path, opened, read,
                   raw_collection, error, json_file, md_file, queue, second_run>>

\* a second call of aggregate_recorded_raw_data on the same files and rows
AggregateAgain ==
    /\ pc = "returned"
    /\ LET r == AggregateRecordedRawData(recorded, catalog, raw_collection, read,
                                         collection_raw_csv, collect_for_arch)
       IN  /\ second_run' = <<[recorded |-> r.recorded, err |-> r.err]>>
           /\ raw_collection' = r.raw
    /\ pc' = "again"
    /\ UNCHANGED <<inputVars, built, recorded, path, opened, read,
                   error, json_file, md_file, queue>>

\* write_json, then the renderer's sorted(metrics.keys()) (lines 217-226, 34)
WriteJson ==
    /\ pc = "returned"
    /\ json_file' = <<JsonDumps(recorded)>>
    /\ queue' = Sorted(DOMAIN recorded)
    /\ pc' = IF DOMAIN recorded = {} THEN "done" ELSE "render"
    /\ UNCHANGED <<inputVars, built, recorded, path, opened, read,
                   raw_collection, error, md_file, second_run>>

\* one iteration of the renderer's loop over the services
Render ==
    /\ pc = "render"
    /\ LET r == RenderService(recorded, Head(queue), Len(md_file) = 0)
       IN  /\ recorded' = r.metrics
           /\ md_file' = md_file \o r.block
           /\ error' = r.err
           /\ queue' = Tail(queue)
           /\ pc' = IF r.err # "" THEN "aborted"
                    ELSE IF Len(queue) = 1 THEN "done" ELSE "render"
    /\ UNCHANGED <<inputVars, built, path, opened, read, raw_collection,
                   json_file, second_run>>

Next ==
    \/ InitService
    \/ OpenFile
    \/ ReadRow
    \/ Return
    \/ AggregateAgain
    \/ WriteJson
    \/ Render

Spec == Init /\ [][Next]_vars

SpecArch == InitArch /\ [][Next]_vars

SpecErrors == InitErrors /\ [][Next]_vars

SpecRaw == InitRaw /\ [][Next]_vars

(* ======================= properties of the program ===================== *)
\* a step that reads one more row
RowStep == pc = "files" /\ Len(read') = Len(read) + 1

\* the input read by a RowStep
NewInput == read'[Len(read')]

\* the keys of a service dict that are operations
Operations(service) == {o \in DOMAIN service : o # "service_attributes"}

\* a {name: count} dict as a set of pairs, whatever the insertion order
Counts(d) == {<<d[i].k, d[i].v>>: i \in 1..Len(d)}

\* the run was aborted by an exception raised while a row was folded
RowAborted ==
    pc = "aborted" /\ json_file = <<>> /\ error # "StopIteration" /\ Len(read) > 0

\* not dropped by the xfail check nor by the architecture filter
NotSuppressed(input) ==
    /\ Len(input.row) = MetricArity
    /\ input.row[8] # "True"
    /\ ~(collect_for_arch # "" /\ ~StrIn(collect_for_arch, input.path))

(* ---- C1 ---- *)
NoCounterDecreased(before, after) ==
    /\ after.invoked >= before.invoked
    /\ \A i \in 1..Len(before.parameters) :
          DictGet(after.parameters, before.parameters[i].k, 0) >= before.parameters[i].v
    /\ \A i \in 1..Len(before.errors) :
          DictGet(after.errors, before.errors[i].k, 0) >= before.errors[i].v

\* C1: while records are folded, invoked, every parameter count and every
\* error count of every operation never decrease from one record to the next.
C1_CountersNeverDecrease ==
    [][RowStep =>
         \A s \in DOMAIN recorded : \A o \in Operations(recorded[s]) :
            NoCounterDecreased(recorded[s][o], recorded'[s][o])]_vars

(* ---- C2 ---- *)
\* the error names known to the run: declared ones and explicit exceptions
ErrorNames ==
    UNION {UNION {SeqToSet(catalog[i].operation_model[o].error_shapes) :
                    o \in DOMAIN catalog[i].operation_model} :
             i \in 1..Len(catalog)}
    \cup {read[i].row[5] : i \in {j \in 1..Len(read) : Len(read[j].row) = MetricArity}}

AtMostOneName(input) ==
    \/ Len(input.row) # MetricArity
    \/ Cardinality({e \in ErrorNames : e # "" /\ StrIn(e, input.row[7])}) <= 1

Permuted(inputs, f) == [i \in 1..Len(inputs) |-> inputs[f[i]]]

\* the run of aggregate_recorded_raw_data on the inputs in another order
Reordered(f) ==
    AggregateRecordedRawData(<<>>, catalog, <<>>, Permuted(read, f), FALSE,
                             collect_for_arch)

SameCounts(rec1, rec2) ==
    /\ DOMAIN rec1 = DOMAIN rec2
    /\ \A s \in DOMAIN rec1 :
        /\ Operations(rec1[s]) = Operations(rec2[s])
        /\ \A o \in Operations(rec1[s]) :
            /\ rec1[s][o].invoked = rec2[s][o].invoked
            /\ Counts(rec1[s][o].parameters) = Counts(rec2[s][o].parameters)
            /\ Counts(rec1[s][o].errors) = Counts(rec2[s][o].errors)

\* C2: when no response_data holds more than one error name, folding the
\* records read in any other order ends with the same invoked, parameters and
\* errors counts for every operation.
C2_OrderIndependentCounts ==
    (pc = "returned" /\ \A i \in 1..Len(read) : AtMostOneName(read[i]))
    => \A f \in Permutations(1..Len(read)) :
          Reordered(f).err = "" => SameCounts(Reordered(f).recorded, recorded)

(* ---- C3 ---- *)
\* C3: folding a row whose xfail field is "True" leaves the Aggregate Report
\* unchanged and raises no hard error, whatever its other fields are.
C3_XfailLeavesReportUnchanged ==
    [][(RowStep /\ Len(NewInput.row) = MetricArity /\ NewInput.row[8] = "True")
         => (recorded' = recorded /\ error' = "" /\ pc' = "files")]_vars

\* an xfail row naming an absent service was read after a folded record,
\* and the run goes on
C3_Witness ==
    /\ pc = "files"
    /\ Len(read) >= 2
    /\ read[Len(read)].row = RowXfail
    /\ read[Len(read)].row[2] \notin DOMAIN recorded
    /\ recorded["S1"]["Op1"].invoked = Len(read) - 1

(* ---- C4 ---- *)
\* the label of a path that lacks the architecture `arch`
LabelWithout(arch, p) ==
    IF arch = "arm64" THEN (IF StrIn("amd64", p) THEN "amd64" ELSE "")
    ELSE (IF StrIn("arm64", p) THEN "arm64" ELSE "")

\* C4: with an architecture filter active, a row of a file whose path lacks
\* the architecture leaves the Aggregate Report unchanged and is appended to
\* the raw collection with the label the path gives it.
C4_FilteredRowOnlyReEmitted ==
    [][(RowStep /\ collect_for_arch \in {"arm64", "amd64"}
               /\ ~StrIn(collect_for_arch, NewInput.path))
         => /\ recorded' = recorded
            /\ collection_raw_csv =>
                 raw_collection' =
                    Append(raw_collection,
                           Append(NewInput.row,
                                  LabelWithout(collect_for_arch, NewInput.path)))]_vars

\* a record that would be folded was read from a file of the other
\* architecture: it is in the raw collection, labelled, and not in the report
C4_Witness ==
    /\ collect_for_arch = "arm64"
    /\ Len(read) >= 2
    /\ read[1] = [path |-> PathArm, row |-> RowParam]
    /\ read[2] = [path |-> PathAmd, row |-> RowParam]
    /\ raw_collection[2] = Append(RowParam, "amd64")
    /\ recorded["S1"]["Op1"].invoked = 1

(* ---- C5 ---- *)
\* C5: when re-emission is requested, the raw collection holds one entry per
\* row read so far, in the order read, whatever became of the row afterwards.
C5_RawCollectionHoldsEveryRow ==
    (collection_raw_csv /\ second_run = <<>>)
    => /\ Len(raw_collection) = Len(read)
       /\ \A i \in 1..Len(read) :
            /\ SubSeq(raw_collection[i], 1, Len(read[i].row)) = read[i].row
            /\ Len(raw_collection[i]) = Len(read[i].row) + 1

\* an xfail row, a filtered row and the row that raised the hard error are
\* all in the raw collection
C5_Witness ==
    /\ collection_raw_csv
    /\ RowAborted
    /\ Len(read) = 3
    /\ read[1].row = RowXfail
    /\ read[2].row = RowParam /\ ~StrIn(collect_for_arch, read[2].path)
    /\ read[3].row = RowBadOp /\ StrIn(collect_for_arch, read[3].path)
    /\ Len(raw_collection) = 3
    /\ raw_collection[3] = Append(RowBadOp, collect_for_arch)

(* ---- C6 ---- *)
\* the catalog entries the builder has gone through and that loaded
Loaded == {i \in 1..built : catalog[i].loads}

\* C6: in every state the Aggregate Report has exactly the services that
\* loaded so far and, for each, an entry with an invoked count for every
\* operation the catalog declares; folding adds and removes none, and a
\* service that fails to load does not stop the build of the others.
C6_EveryCatalogOperationPresent ==
    /\ DOMAIN recorded = {catalog[i].s : i \in Loaded}
    /\ \A i \in Loaded :
        /\ Operations(recorded[catalog[i].s]) = SeqToSet(catalog[i].operation_names)
        /\ \A o \in Operations(recorded[catalog[i].s]) :
              "invoked" \in recorded[catalog[i].s][o].keys

\* records were folded, the service after the one that failed to load is in
\* the report, and an operation never invoked is still there with count 0
C6_Witness ==
    /\ pc = "files"
    /\ Len(read) = MaxRows
    /\ ~catalog[2].loads
    /\ DOMAIN recorded = {"S1", "S3"}
    /\ recorded["S1"]["Op1"].invoked > 0
    /\ recorded["S1"]["Op2"].invoked = 0
    /\ recorded["S3"]["OpA"].invoked = 0

(* ---- C7 ---- *)
\* the inputs that went through the whole loop body
FoldedInputs == IF RowAborted THEN SubSeq(read, 1, Len(read) - 1) ELSE read

\* the node ids of the non-suppressed records folded for an operation
FoldedIds(s, o) ==
    {FoldedInputs[i].row[1] :
        i \in {j \in 1..Len(FoldedInputs) :
                 /\ NotSuppressed(FoldedInputs[j])
                 /\ FoldedInputs[j].row[2] = s
                 /\ FoldedInputs[j].row[3] = o}}

\* C7: the tests of an operation hold no identifier twice and hold exactly
\* the node ids of the non-suppressed records folded for the operation.
C7_TestsAreDistinctFoldedIds ==
    \A s \in DOMAIN recorded : \A o \in Operations(recorded[s]) :
        /\ Cardinality(SeqToSet(recorded[s][o].tests)) = Len(recorded[s][o].tests)
        /\ SeqToSet(recorded[s][o].tests) = FoldedIds(s, o)

\* three records of one operation were folded, two of them with the same id
C7_Witness ==
    /\ Len(read) = 3
    /\ read[1].row = RowParam
    /\ read[2].row = RowException
    /\ read[3].row = RowTwoNames
    /\ recorded["S1"]["Op1"].invoked = 3
    /\ recorded["S1"]["Op1"].tests = <<"t1", "t2">>

(* ---- C8 ---- *)
\* C8: rendering the Markdown report leaves the Aggregate Report unchanged.
C8_RenderLeavesReportUnchanged ==
    [][pc = "render" => recorded' = recorded]_vars

(* ---- C9 ---- *)
\* the number of hundredths that a text such as "66.67" denotes
Hundredths(text) ==
    LET parts == StrSplit(text, ".")
    IN  100 * ParseInt(parts[1]) + ParseInt(parts[2])

\* h hundredths is t / n * 100 rounded to two decimals
IsPercentage(h, t, n) ==
    /\ n > 0
    /\ 2 * (h * n - 10000 * t) <= n
    /\ 2 * (10000 * t - h * n) <= n

\* the operations of a service a non-suppressed record was read for
Invoked(s) ==
    {read[i].row[3] : i \in {j \in 1..Len(read) :
                                NotSuppressed(read[j]) /\ read[j].row[2] = s}}

DeclaredOperations(s) ==
    UNION {SeqToSet(catalog[i].operation_names) :
             i \in {j \in 1..Len(catalog) : catalog[j].s = s}}

\* C9: the coverage written for a service is the number of its operations
\* with a non-suppressed record over the number of its declared operations,
\* times 100, and it is the same if the records are folded in another order.
C9_CoverageIsInvokedOverDeclared ==
    /\ \A b \in 1..Len(md_file) :
          IsPercentage(Hundredths(md_file[b].coverage),
                       Cardinality(Invoked(md_file[b].service)
                                   \cap DeclaredOperations(md_file[b].service)),
                       Cardinality(DeclaredOperations(md_file[b].service)))
    /\ Len(md_file) > 0 =>
          \A f \in Permutations(1..Len(read)) :
             LET r == Reordered(f)
                 b == md_file[Len(md_file)]
             IN  r.err = "" =>
                   RenderService(r.recorded, b.service, b.title).block[1].coverage
                      = b.coverage

\* one of the two operations of S1 was invoked, by three records
C9_Witness ==
    /\ Len(md_file) >= 1
    /\ md_file[1].service = "S1"
    /\ md_file[1].coverage = "50.00"
    /\ Len(read) = 3
    /\ read[1].row = RowXfail
    /\ read[2].row # read[3].row

Scenario == <<RowParam, RowException, RowMatch, RowNoMatch>>

\* the rows read so far, without their paths
ReadRows == [i \in 1..Len(read) |-> read[i].row]

\* exactly the first k rows of the scenario have been read
ScenarioPrefix(k) == ReadRows = SubSeq(Scenario, 1, k)

\* C11: folding the rows t1..t4 of the scenario in order on the skeleton of
\* S1 gives, for Op1: after t1 invoked 1, p1 1, E1 0; after t2 invoked 2,
\* _none_ 1, E1 1; after t3 E1 2; after t4 E1 still 2 and invoked 4.
C11_ScenarioCounts ==
    LET op == recorded["S1"]["Op1"]
    IN  /\ ScenarioPrefix(1) =>
            /\ op.invoked = 1
            /\ DictGet(op.parameters, "p1", -1) = 1
            /\ DictGet(op.errors, "E1", -1) = 0
        /\ ScenarioPrefix(2) =>
            /\ op.invoked = 2
            /\ DictGet(op.parameters, "_none_", -1) = 1
            /\ DictGet(op.errors, "E1", -1) = 1
        /\ ScenarioPrefix(3) => DictGet(op.errors, "E1", -1) = 2
        /\ ScenarioPrefix(4) =>
            /\ DictGet(op.errors, "E1", -1) = 2
            /\ op.invoked = 4

\* the four rows were folded, in the order of the scenario
C11_Witness ==
    /\ ScenarioPrefix(Len(Scenario))
    /\ pc = "returned"
    /\ recorded["S1"]["Op1"].invoked = Len(Scenario)
    /\ recorded["S1"]["Op1"].tests = <<"t1", "t2", "t3", "t4">>

(* ---- C12 ---- *)
\* a step that folds a non-suppressed record through all of lines 153-180
FoldStep ==
    /\ RowStep
    /\ NotSuppressed(NewInput)
    /\ pc' = "files"

\* the operation's dict that a FoldStep works on, before and after
OpsBefore == recorded[NewInput.row[2]][NewInput.row[3]]

OpsAfter == recorded'[NewInput.row[2]][NewInput.row[3]]

\* C12: folding a non-suppressed record with a non-empty exception E sets
\* errors[E] of its operation to its previous value plus 1 (0 when the key
\* was absent) and leaves every other error count of the operation unchanged.
C12_ExceptionIncrementsItsCount ==
    [][(FoldStep /\ NewInput.row[5] # "")
         => /\ DictGet(OpsAfter.errors, NewInput.row[5], 0)
                 = DictGet(OpsBefore.errors, NewInput.row[5], 0) + 1
            /\ \A i \in 1..Len(OpsBefore.errors) :
                  OpsBefore.errors[i].k # NewInput.row[5]
                     => DictGet(OpsAfter.errors, OpsBefore.errors[i].k, 0)
                           = OpsBefore.errors[i].v]_vars

(* ---- C13 ---- *)
\* whether key i of an errors mapping is the first one named in the data
IsFirstNamed(errors, i, data) ==
    /\ StrIn(errors[i].k, data)
    /\ \A j \in 1..(i - 1) : ~StrIn(errors[j].k, data)

\* C13: folding a non-suppressed record with empty exception adds no error
\* key and changes at most one error count, by exactly 1: with a response
\* code of 300 or more, the first key of the operation's errors mapping, in
\* insertion order, whose name occurs in response_data; otherwise none.
C13_HeuristicIncrementsFirstMatch ==
    [][(FoldStep /\ NewInput.row[5] = "")
         => /\ Len(OpsAfter.errors) = Len(OpsBefore.errors)
            /\ \A i \in 1..Len(OpsBefore.errors) :
                  /\ OpsAfter.errors[i].k = OpsBefore.errors[i].k
                  /\ OpsAfter.errors[i].v =
                        IF /\ ParseInt(NewInput.row[6]) >= 300
                           /\ IsFirstNamed(OpsBefore.errors, i, NewInput.row[7])
                        THEN OpsBefore.errors[i].v + 1
                        ELSE OpsBefore.errors[i].v]_vars

\* a record naming E2 before E1 in its data raised E1, the first key, and a
\* key created by an explicit exception was raised by a later match
C13_Witness ==
    /\ Len(read) = 4
    /\ read[1].row = RowNewError
    /\ read[2].row = RowNewMatch
    /\ read[3].row = RowTwoNames
    /\ read[4].row = RowParam
    /\ recorded["S1"]["Op2"].errors = <<[k |-> "E9", v |-> 2]>>
    /\ recorded["S1"]["Op1"].errors = <<[k |-> "E1", v |-> 1], [k |-> "E2", v |-> 0]>>

(* ---- C14 ---- *)
\* the parameter names the builder pre-seeds for an operation of the catalog
PreSeeded(s, o) ==
    UNION {SeqToSet(catalog[i].operation_model[o].members) :
             i \in {j \in 1..Len(catalog) :
                      /\ catalog[j].s = s
                      /\ o \in DOMAIN catalog[j].operation_model
                      /\ catalog[j].operation_model[o].has_members}}

\* the comma-separated names of the record read by a RowStep
NewNames == SeqToSet(StrSplit(NewInput.row[4], ","))

\* every count of `before` is the same in `after`, but those of `names`,
\* which are one more (0 taken for an absent name)
RaisedByOne(before, after, names) ==
    /\ DictKeys(after) = DictKeys(before) \cup names
    /\ \A n \in DictKeys(after) :
          DictGet(after, n, 0) = DictGet(before, n, 0) + (IF n \in names THEN 1 ELSE 0)

\* C14: a non-suppressed record with empty parameters raises _none_ by 1
\* (creating it when absent) and no other parameter count; one with names
\* raises the count of each name by 1, and a name that the skeleton did not
\* pre-seed from the catalog, _none_ included, aborts the run.
C14_ParameterAccounting ==
    [][(/\ RowStep
        /\ NotSuppressed(NewInput)
        /\ NewInput.row[2] \in DOMAIN recorded
        /\ NewInput.row[3] \in Operations(recorded[NewInput.row[2]]))
         => IF NewInput.row[4] = ""
            THEN pc' = "files" =>
                   RaisedByOne(OpsBefore.parameters, OpsAfter.parameters, {"_none_"})
            ELSE IF NewNames \subseteq PreSeeded(NewInput.row[2], NewInput.row[3])
            THEN pc' = "files" =>
                   RaisedByOne(OpsBefore.parameters, OpsAfter.parameters, NewNames)
            ELSE pc' = "aborted"]_vars

(* ---- C15 ---- *)
\* the record read by a RowStep names a service or an operation that is no
\* key of the report
NewInputAbsent ==
    \/ NewInput.row[2] \notin DOMAIN recorded
    \/ NewInput.row[3] \notin DOMAIN recorded[NewInput.row[2]]

Reached(s, o) ==
    {i \in 1..Len(read) :
        /\ NotSuppressed(read[i])
        /\ read[i].row[2] = s
        /\ read[i].row[3] = o}

\* the explicit exceptions of the records that got to line 156
Exceptions(s, o) == {read[i].row[5] : i \in Reached(s, o)} \ {""}

\* every name of the list is a key of the mapping, with count 0
AllAtZero(d, names) == \A n \in SeqToSet(names) : DictHas(d, n) /\ DictGet(d, n, -1) = 0

\* C16: in the skeleton every operation has invoked 0 and every declared
\* parameter and error at count 0; an operation that declares no errors has
\* no errors mapping (likewise no parameters mapping when it declares no
\* parameters), and an errors mapping appears on such an operation only when
\* a folded record with an explicit exception creates a key in it.
C16_SkeletonOmitsEmptyMappings ==
    \A i \in Loaded : \A o \in SeqToSet(catalog[i].operation_names) :
        LET op == recorded[catalog[i].s][o]
            model == catalog[i].operation_model[o]
        IN  /\ Reached(catalog[i].s, o) = {} =>
                /\ op.invoked = 0
                /\ AllAtZero(op.parameters, model.members)
                /\ AllAtZero(op.errors, model.error_shapes)
                /\ Len(model.error_shapes) = 0 => "errors" \notin op.keys
                /\ Len(model.members) = 0 => "parameters" \notin op.keys
            /\ (Len(model.error_shapes) = 0 /\ "errors" \in op.keys) =>
                /\ Exceptions(catalog[i].s, o) # {}
                /\ DictKeys(op.errors) # {}

\* C16 as amended: in the skeleton every operation has invoked 0 and every
\* declared parameter and error at count 0; it has a parameters mapping
\* exactly when its input shape has a members attribute and an errors
\* mapping exactly when its model has an error_shapes attribute, empty when
\* no name is declared; an operation built without an errors mapping has one
\* exactly once a non-suppressed record got to line 156 for it, and the keys
\* of that mapping are explicit exceptions of such records.
C16_SkeletonFollowsAttributes ==
    \A i \in Loaded : \A o \in SeqToSet(catalog[i].operation_names) :
        LET op == recorded[catalog[i].s][o]
            model == catalog[i].operation_model[o]
        IN  /\ Reached(catalog[i].s, o) = {} =>
                /\ op.invoked = 0
                /\ "parameters" \in op.keys <=> model.has_members
                /\ "errors" \in op.keys <=> model.has_error_shapes
                /\ Counts(op.parameters) = {<<n, 0>> : n \in SeqToSet(model.members)}
                /\ Counts(op.errors) = {<<n, 0>> : n \in SeqToSet(model.error_shapes)}
            /\ ~model.has_error_shapes =>
                /\ "errors" \in op.keys <=> Reached(catalog[i].s, o) # {}
                /\ DictKeys(op.errors) \subseteq Exceptions(catalog[i].s, o)

\* an operation with an empty members list has an empty parameters mapping,
\* and a record without exception gave an empty errors mapping to an
\* operation built without one
C16_Witness ==
    /\ pc = "returned"
    /\ Len(read) = 1
    /\ read[1].row = RowNewMatch
    /\ "errors" \in recorded["S1"]["Op2"].keys
    /\ recorded["S1"]["Op2"].errors = <<>>
    /\ recorded["S1"]["Op2"].invoked = 1
    /\ "parameters" \in recorded["S3"]["OpA"].keys
    /\ recorded["S3"]["OpA"].parameters = <<>>

(* ---- C17 ---- *)
\* C17: a row with the wrong number of fields aborts the run and leaves the
\* Aggregate Report as it was; no step follows an abort, so no later row of
\* any file is folded or re-emitted; and a run aborted by such a row has
\* written neither the JSON nor the Markdown report.
C17_WrongArityAborts ==
    [][/\ pc # "aborted"
       /\ (RowStep /\ Len(NewInput.row) # MetricArity)
            => /\ recorded' = recorded
               /\ pc' = "aborted"
               /\ error' = "TypeError"
               /\ json_file' = <<>>
               /\ md_file' = <<>>]_vars

\* a short row was read from the second file after a folded record of the
\* first: both are in the raw collection, only the first is in the report
C17_Witness ==
    /\ RowAborted
    /\ error = "TypeError"
    /\ Len(opened) = 2
    /\ Len(read) = 2
    /\ read[1].row = RowParam
    /\ read[2].row = RowShort
    /\ read[2].path # read[1].path
    /\ Len(raw_collection) = 2
    /\ recorded["S1"]["Op1"].invoked = 1
    /\ json_file = <<>>
    /\ md_file = <<>>

(* ---- C18 ---- *)
\* the services of the blocks written to the Markdown report
WrittenServices == {md_file[b].service : b \in 1..Len(md_file)}

\* C18: rendering a service without any declared operation aborts the
\* report with a division by zero; the blocks of the services that sort
\* before it are in the file by then, its own block and those of later
\* services are never written.
C18_EmptyServiceAbortsRendering ==
    [][/\ pc # "aborted"
       /\ (pc = "render" /\ DeclaredOperations(Head(queue)) = {})
            => /\ pc' = "aborted"
               /\ error' = "ZeroDivisionError"
               /\ md_file' = md_file
               /\ WrittenServices =
                     {s \in DOMAIN recorded : StrLess(s, Head(queue))}]_vars

\* the report of S1 is written, S2 has no operation, S3 is never written
C18_Witness ==
    /\ pc = "aborted"
    /\ error = "ZeroDivisionError"
    /\ json_file # <<>>
    /\ DOMAIN recorded = {"S1", "S2", "S3"}
    /\ Operations(recorded["S2"]) = {}
    /\ WrittenServices = {"S1"}
    /\ queue = <<"S3">>
    /\ Len(read) > 0

(* ---- C19 ---- *)
\* C19: after records folded without a hard error, for every operation,
\* invoked is the number of non-suppressed records folded for it and also
\* parameters._none_ (0 when absent) plus the number of those records with
\* non-empty parameters; tests has at most invoked entries and is non-empty
\* exactly when invoked is positive.
C19_InvokedMatchesRecords ==
    ~RowAborted =>
        \A s \in DOMAIN recorded : \A o \in Operations(recorded[s]) :
            LET op == recorded[s][o]
            IN  /\ op.invoked = Cardinality(Reached(s, o))
                /\ op.invoked =
                      DictGet(op.parameters, "_none_", 0)
                      + Cardinality({i \in Reached(s, o) : read[i].row[4] # ""})
                /\ Len(op.tests) <= op.invoked
                /\ Len(op.tests) > 0 <=> op.invoked > 0

(* ---- C20 ---- *)
\* C20: with an architecture filter active and re-emission requested, every
\* row that is folded into the Aggregate Report is appended to the raw
\* collection with the architecture of the filter as its label, whatever the
\* path of its file.
C20_FoldedRowLabelledWithFilter ==
    [][(FoldStep /\ collect_for_arch # "" /\ collection_raw_csv)
         => raw_collection' =
               Append(raw_collection, Append(NewInput.row, collect_for_arch))]_vars

====
